---- MODULE Spec2Model ----
(***************************************************************************)
(* ghostunnel: a mutual-TLS terminating proxy with zero-downtime reload.   *)
(* The model follows main() of main.go statement by statement, for a       *)
(* family of processes (the first one started by an operator, the others   *)
(* spawned by a reload), and the tasks main launches: the accept loop, the *)
(* per-connection handler, the SIGTERM handler and the SIGUSR1 handler.    *)
(***************************************************************************)
EXTENDS Integers, Sequences, FiniteSets, TLC

\* ------------------------------------------------------------------ bounds
MaxProcs == 3       \* processes that ever exist (pid 1 is operator-started)
MaxSpawns == 1      \* children spawned in the general specification
MaxConns == 2       \* client connections that ever arrive
MaxOpTerms == 1     \* termination signals an operator sends to one process

\* ------------------------------------------------------- program constants
\* faulty variants: wg.Add(2), no wg.Add at all
AcceptSlotTwice == 1 + 1
AcceptSlotNone == 1 - 1
\* wg.Add(1): the slot the join-counter holds for the accept loop
AcceptSlot == 1
\* faulty variant: make(chan bool)
StopperCapUnbuffered == 1 - 1
\* make(chan bool, 1): the buffer of the stopper channel
StopperCap == 1

Procs == 1..MaxProcs
Conns == 1..MaxConns
InitPid == 0        \* the pid Getppid reports once the spawner is gone
NotSent == 0 - 1    \* no readiness signal sent (yet)

\* --client: the accepted organizational-unit names
AcceptedOUs == {"ops"}
\* presented client chains: whether the chain verifies against the trust
\* pool, and the organizational units of each certificate of the chain
ClientChains ==
  { [trusted |-> TRUE,  ous |-> <<{"ops"}>>],
    [trusted |-> TRUE,  ous |-> <<{"guest"}>>],
    [trusted |-> TRUE,  ous |-> <<{"guest"}, {"ops"}>>],
    [trusted |-> FALSE, ous |-> <<{"ops"}>>] }
NoChain == [trusted |-> FALSE, ous |-> <<>>]

VARIABLES
  pc,            \* position of main() in each process
  gracefulChild, \* the --graceful flag of each process
  spawner,       \* pid of the process that spawned it (InitPid: the operator)
  listener,      \* rawListener: "none", "open", "closed"
  tlsConfig,     \* the configuration the TLS listener wraps the socket with
  wg,            \* the sync.WaitGroup counter
  stopper,       \* number of values buffered in the stopper channel
  acceptPc,      \* the accept task
  termPc,        \* the SIGTERM handler task
  usr1Pc,        \* the SIGUSR1 handler task
  conn,          \* per client connection: owner, stage, presented chain
  readySentTo,   \* pid the process's readiness SIGTERM went to (history)
  opTerms,       \* operator SIGTERMs delivered to the process (history)
  startupErr     \* the startup error the process met (history)

vars == <<pc, gracefulChild, spawner, listener, tlsConfig, wg, stopper,
          acceptPc, termPc, usr1Pc, conn, readySentTo, opTerms, startupErr>>

\* ------------------------------------------------------------- main()
\* faulty variants: the parent is signalled before the socket is bound; the
\* parent is never signalled
MainProgramNotifyFirst ==
  <<"initlog", "notify", "bind", "wrap", "wginit", "go_accept", "go_sigterm",
    "go_sigusr1", "wait">>
MainProgramNoNotify ==
  <<"initlog", "bind", "wrap", "wginit", "go_accept", "go_sigterm", "go_sigusr1",
    "wait">>
\* faulty variants: the parent is signalled before the SIGUSR1 handler is
\* launched; the accept loop is launched before wg.Add(1)
MainProgramNotifyEarly ==
  <<"initlog", "bind", "wrap", "wginit", "go_accept", "go_sigterm", "notify",
    "go_sigusr1", "wait">>
MainProgramAcceptBeforeAdd ==
  <<"initlog", "bind", "wrap", "go_accept", "wginit", "go_sigterm",
    "go_sigusr1", "notify", "wait">>
\* The statements of main() after kingpin.Parse(), in program order.
MainProgram ==
  <<"initlog", "bind", "wrap", "wginit", "go_accept", "go_sigterm", "go_sigusr1",
    "notify", "wait">>

IndexOf(label) == CHOOSE i \in 1..Len(MainProgram) : MainProgram[i] = label
\* the statement after `label`; main returns after the last one
After(label) ==
  IF IndexOf(label) = Len(MainProgram) THEN "terminated"
  ELSE MainProgram[IndexOf(label) + 1]

Running(p) == pc[p] \notin {"unborn", "terminated", "fatal"}

\* faulty variant: the error is dropped
PanicOnErrorIgnores(err) == FALSE
\* panicOnError: panics iff err is not nil
PanicOnError(err) == err # "nil"

\* faulty variant: main does not wait
WaitReturnsAtOnce(n) == TRUE
\* wg.Wait() returns when the counter is zero
WaitReturns(n) == n = 0

\* syscall.Getppid(): the spawner while it lives, init afterwards
Getppid(p) ==
  IF spawner[p] \in Procs /\ Running(spawner[p]) THEN spawner[p] ELSE InitPid

\* ------------------------------------------------- TLS policy (buildConfig)
RequireAndVerify == [clientAuth |-> TRUE, accepted |-> AcceptedOUs]
NoConfig == [clientAuth |-> FALSE, accepted |-> {}]
BuildConfig == RequireAndVerify

\* faulty variant: the raw listener is served without the TLS policy
NewListenerPlain(config) == NoConfig
\* tls.NewListener(rawListener, buildConfig()): the configuration in force
NewListener(config) == config

\* some certificate of the chain carries an accepted organizational unit
ChainHasAcceptedOU(chain, accepted) ==
  \E i \in 1..Len(chain.ous) : chain.ous[i] \cap accepted # {}

HandshakeOK(config, chain) ==
  IF config.clientAuth
  THEN chain.trusted /\ ChainHasAcceptedOU(chain, config.accepted)
  ELSE TRUE

\* ---------------------------------------------------------------- Init
NoConn == [owner |-> 0, stage |-> "none", chain |-> NoChain]

Init ==
  /\ pc = [p \in Procs |-> IF p = 1 THEN MainProgram[1] ELSE "unborn"]
  /\ gracefulChild = [p \in Procs |-> FALSE]
  /\ spawner = [p \in Procs |-> InitPid]
  /\ listener = [p \in Procs |-> "none"]
  /\ tlsConfig = [p \in Procs |-> NoConfig]
  /\ wg = [p \in Procs |-> 0]
  /\ stopper = [p \in Procs |-> 0]
  /\ acceptPc = [p \in Procs |-> "none"]
  /\ termPc = [p \in Procs |-> "none"]
  /\ usr1Pc = [p \in Procs |-> "none"]
  /\ conn = [c \in Conns |-> NoConn]
  /\ readySentTo = [p \in Procs |-> NotSent]
  /\ opTerms = [p \in Procs |-> 0]
  /\ startupErr = [p \in Procs |-> "nil"]

\* The process is gone: the kernel closes its socket, and its tasks no
\* longer run (every task's step is guarded by Running).
Active(c) == conn[c].stage \in {"handshake", "dial", "relay2", "relay1"}
ListenerAfterExit(p) ==
  IF listener[p] = "open" THEN "closed" ELSE listener[p]

\* main panics: the process exits with a non-zero code
Panic(p, err) ==
  /\ pc' = [pc EXCEPT ![p] = "fatal"]
  /\ startupErr' = [startupErr EXCEPT ![p] = err]
  /\ listener' = [listener EXCEPT ![p] = ListenerAfterExit(p)]

\* initLogger(): with --syslog, syslog.NewLogger may fail; panicOnError
InitLogger(p) ==
  /\ pc[p] = "initlog"
  /\ \E err \in {"nil", "SyslogError"} :
       IF PanicOnError(err)
       THEN /\ Panic(p, err)
       ELSE /\ pc' = [pc EXCEPT ![p] = After("initlog")]
            /\ startupErr' = [startupErr EXCEPT ![p] = err]
            /\ listener' = listener
  /\ UNCHANGED <<gracefulChild, spawner, tlsConfig, wg, stopper, acceptPc,
                 termPc, usr1Pc, conn, readySentTo, opTerms>>

\* rawListener, err := reuseport.NewReusablePortListener(...); panicOnError
Bind(p) ==
  /\ pc[p] = "bind"
  /\ \E err \in {"nil", "BindError"} :
       IF PanicOnError(err)
       THEN /\ Panic(p, err)
       ELSE /\ pc' = [pc EXCEPT ![p] = After("bind")]
            /\ listener' = [listener EXCEPT
                 ![p] = IF err = "nil" THEN "open" ELSE "none"]
            /\ startupErr' = [startupErr EXCEPT ![p] = err]
  /\ UNCHANGED <<gracefulChild, spawner, tlsConfig, wg, stopper, acceptPc,
                 termPc, usr1Pc, conn, readySentTo, opTerms>>

\* listener := tls.NewListener(rawListener, buildConfig())
Wrap(p) ==
  /\ pc[p] = "wrap"
  /\ \E err \in {"nil", "KeyMaterialError", "TrustStoreError"} :
       IF err # "nil"
       THEN /\ Panic(p, err)
            /\ tlsConfig' = tlsConfig
       ELSE /\ pc' = [pc EXCEPT ![p] = After("wrap")]
            /\ tlsConfig' = [tlsConfig EXCEPT ![p] = NewListener(BuildConfig)]
            /\ UNCHANGED <<listener, startupErr>>
  /\ UNCHANGED <<gracefulChild, spawner, wg, stopper, acceptPc,
                 termPc, usr1Pc, conn, readySentTo, opTerms>>

\* wg := &sync.WaitGroup{}; wg.Add(1); stopper := make(chan bool, 1)
WgInit(p) ==
  /\ pc[p] = "wginit"
  /\ pc' = [pc EXCEPT ![p] = After("wginit")]
  /\ wg' = [wg EXCEPT ![p] = @ + AcceptSlot]
  /\ UNCHANGED <<gracefulChild, spawner, listener, tlsConfig, stopper,
                 acceptPc, termPc, usr1Pc, conn, readySentTo, opTerms,
                 startupErr>>

\* go accept(listener, wg, stopper)
GoAccept(p) ==
  /\ pc[p] = "go_accept"
  /\ pc' = [pc EXCEPT ![p] = After("go_accept")]
  /\ acceptPc' = [acceptPc EXCEPT ![p] = "accepting"]
  /\ UNCHANGED <<gracefulChild, spawner, listener, tlsConfig, wg, stopper,
                 termPc, usr1Pc, conn, readySentTo, opTerms, startupErr>>

\* go sigtermHandler(listener, stopper)
GoSigterm(p) ==
  /\ pc[p] = "go_sigterm"
  /\ pc' = [pc EXCEPT ![p] = After("go_sigterm")]
  /\ termPc' = [termPc EXCEPT ![p] = "waiting"]
  /\ UNCHANGED <<gracefulChild, spawner, listener, tlsConfig, wg, stopper,
                 acceptPc, usr1Pc, conn, readySentTo, opTerms, startupErr>>

\* go sigusr1Handler()
GoSigusr1(p) ==
  /\ pc[p] = "go_sigusr1"
  /\ pc' = [pc EXCEPT ![p] = After("go_sigusr1")]
  /\ usr1Pc' = [usr1Pc EXCEPT ![p] = "waiting"]
  /\ UNCHANGED <<gracefulChild, spawner, listener, tlsConfig, wg, stopper,
                 acceptPc, termPc, conn, readySentTo, opTerms, startupErr>>

\* A SIGTERM reaches process q: its handler, if it is waiting for the signal,
\* wakes up; any further SIGTERM changes nothing.
TermPcAfterSignal(q) ==
  IF q \in Procs /\ Running(q) /\ termPc[q] = "waiting"
  THEN [termPc EXCEPT ![q] = "notify"] ELSE termPc

\* if *gracefulChild { syscall.Kill(syscall.Getppid(), syscall.SIGTERM) }
NotifyParent(p) ==
  /\ pc[p] = "notify"
  /\ pc' = [pc EXCEPT ![p] = After("notify")]
  /\ IF gracefulChild[p]
     THEN /\ readySentTo' = [readySentTo EXCEPT ![p] = Getppid(p)]
          /\ termPc' = TermPcAfterSignal(Getppid(p))
     ELSE UNCHANGED <<readySentTo, termPc>>
  /\ UNCHANGED <<gracefulChild, spawner, listener, tlsConfig, wg, stopper,
                 acceptPc, usr1Pc, conn, opTerms, startupErr>>

\* wg.Wait(); main returns: exit code 0
Wait(p) ==
  /\ pc[p] = "wait"
  /\ WaitReturns(wg[p])
  /\ pc' = [pc EXCEPT ![p] = After("wait")]
  /\ listener' = [listener EXCEPT ![p] = ListenerAfterExit(p)]
  /\ UNCHANGED <<gracefulChild, spawner, tlsConfig, wg, stopper, acceptPc,
                 termPc, usr1Pc, conn, readySentTo, opTerms, startupErr>>

\* ------------------------------------------------ SIGTERM handler task
\* An operator sends SIGTERM to a process whose handler is installed.
OperatorTerm(p) ==
  /\ Running(p)
  /\ termPc[p] # "none"
  /\ opTerms[p] < MaxOpTerms
  /\ opTerms' = [opTerms EXCEPT ![p] = @ + 1]
  /\ termPc' = TermPcAfterSignal(p)
  /\ UNCHANGED <<pc, gracefulChild, spawner, listener, tlsConfig, wg,
                 stopper, acceptPc, usr1Pc, conn, readySentTo, startupErr>>

\* the handler notifies the accept loop through the stopper channel
\* (the send blocks while the buffer is full) ...
TermNotify(p) ==
  /\ Running(p)
  /\ termPc[p] = "notify"
  /\ stopper[p] < StopperCap
  /\ stopper' = [stopper EXCEPT ![p] = @ + 1]
  /\ termPc' = [termPc EXCEPT ![p] = "close"]
  /\ UNCHANGED <<pc, gracefulChild, spawner, listener, tlsConfig, wg,
                 acceptPc, usr1Pc, conn, readySentTo, opTerms, startupErr>>

\* ... and then closes the listener
TermClose(p) ==
  /\ Running(p)
  /\ termPc[p] = "close"
  /\ listener' = [listener EXCEPT ![p] = "closed"]
  /\ termPc' = [termPc EXCEPT ![p] = "done"]
  /\ UNCHANGED <<pc, gracefulChild, spawner, tlsConfig, wg, stopper,
                 acceptPc, usr1Pc, conn, readySentTo, opTerms, startupErr>>

\* ------------------------------------------------ SIGUSR1 handler task
\* A reload signal: the handler spawns a new process with the same
\* arguments plus --graceful, and goes back to waiting for the next signal.
Unborn == {q \in Procs : pc[q] = "unborn"}
Reload(p) ==
  /\ Running(p)
  /\ usr1Pc[p] = "waiting"
  /\ Unborn # {}
  /\ LET q == CHOOSE x \in Unborn : \A y \in Unborn : x <= y IN
       /\ pc' = [pc EXCEPT ![q] = MainProgram[1]]
       /\ gracefulChild' = [gracefulChild EXCEPT ![q] = TRUE]
       /\ spawner' = [spawner EXCEPT ![q] = p]
  /\ UNCHANGED <<listener, tlsConfig, wg, stopper, acceptPc, termPc, usr1Pc,
                 conn, readySentTo, opTerms, startupErr>>

\* ---------------------------------------------------------- accept task
\* listener.Accept() returns a connection: count it, hand it to its own task
AcceptConn(p, c) ==
  /\ Running(p)
  /\ acceptPc[p] = "accepting"
  /\ listener[p] = "open"
  /\ conn[c].stage = "none"
  /\ \A d \in Conns : d < c => conn[d].stage # "none"
  /\ \E chain \in ClientChains :
       conn' = [conn EXCEPT ![c] =
                  [owner |-> p, stage |-> "handshake", chain |-> chain]]
  /\ wg' = [wg EXCEPT ![p] = @ + 1]
  /\ UNCHANGED <<pc, gracefulChild, spawner, listener, tlsConfig, stopper,
                 acceptPc, termPc, usr1Pc, readySentTo, opTerms, startupErr>>

\* faulty variant: every accept error is taken for a failure
AcceptIgnoresStopper(p) ==
  /\ Running(p)
  /\ acceptPc[p] = "accepting"
  /\ acceptPc' = [acceptPc EXCEPT ![p] = "failed"]
  /\ UNCHANGED <<pc, gracefulChild, spawner, listener, tlsConfig, wg, stopper,
                 termPc, usr1Pc, conn, readySentTo, opTerms, startupErr>>

\* listener.Accept() returns an error.  With a stopper notification waiting
\* it is a shutdown: the loop ends and gives its counter slot back.  Otherwise
\* the loop stops serving.
AcceptReturnsError(p) ==
  /\ Running(p)
  /\ acceptPc[p] = "accepting"
  /\ IF stopper[p] > 0
     THEN /\ stopper' = [stopper EXCEPT ![p] = @ - 1]
          /\ acceptPc' = [acceptPc EXCEPT ![p] = "exited"]
          /\ wg' = [wg EXCEPT ![p] = @ - 1]
     ELSE /\ acceptPc' = [acceptPc EXCEPT ![p] = "failed"]
          /\ UNCHANGED <<stopper, wg>>
  /\ UNCHANGED <<pc, gracefulChild, spawner, listener, tlsConfig, termPc,
                 usr1Pc, conn, readySentTo, opTerms, startupErr>>

\* ... because the listener was closed
AcceptClosed(p) ==
  /\ listener[p] = "closed"
  /\ AcceptReturnsError(p)

\* ... for any other reason, the listener still open
AcceptFails(p) ==
  /\ listener[p] = "open"
  /\ AcceptReturnsError(p)

\* a loop that stopped serving is drained by the shutdown path
AcceptFailedStop(p) ==
  /\ Running(p)
  /\ acceptPc[p] = "failed"
  /\ stopper[p] > 0
  /\ stopper' = [stopper EXCEPT ![p] = @ - 1]
  /\ acceptPc' = [acceptPc EXCEPT ![p] = "exited"]
  /\ wg' = [wg EXCEPT ![p] = @ - 1]
  /\ UNCHANGED <<pc, gracefulChild, spawner, listener, tlsConfig, termPc,
                 usr1Pc, conn, readySentTo, opTerms, startupErr>>

\* ------------------------------------------------------ connection task
\* close the connection(s) and decrement the counter
Closed == [owner |-> 0, stage |-> "closed", chain |-> NoChain]
Rejected == [owner |-> 0, stage |-> "rejected", chain |-> NoChain]
\* faulty variant: the failure tears down the owner's other connections too
FinishClosesSiblings(c) ==
  /\ conn' = [d \in Conns |->
               IF conn[d].owner = conn[c].owner /\ Active(d)
               THEN Closed ELSE conn[d]]
  /\ wg' = [wg EXCEPT ![conn[c].owner] = @ - 1]
Finish(c) ==
  /\ conn' = [conn EXCEPT ![c] = Closed]
  /\ wg' = [wg EXCEPT ![conn[c].owner] = @ - 1]

\* the TLS handshake, under the listener's configuration
Handshake(c) ==
  /\ conn[c].stage = "handshake"
  /\ Running(conn[c].owner)
  /\ IF HandshakeOK(tlsConfig[conn[c].owner], conn[c].chain)
     THEN /\ conn' = [conn EXCEPT ![c].stage = "dial", ![c].chain = NoChain]
          /\ wg' = wg
     ELSE /\ conn' = [conn EXCEPT ![c] = Rejected]
          /\ wg' = [wg EXCEPT ![conn[c].owner] = @ - 1]
  /\ UNCHANGED <<pc, gracefulChild, spawner, listener, tlsConfig, stopper,
                 acceptPc, termPc, usr1Pc, readySentTo, opTerms, startupErr>>

\* open the TCP connection to the backend
Dial(c) ==
  /\ conn[c].stage = "dial"
  /\ Running(conn[c].owner)
  /\ \/ conn' = [conn EXCEPT ![c].stage = "relay2"] /\ wg' = wg
     \/ Finish(c)
  /\ UNCHANGED <<pc, gracefulChild, spawner, listener, tlsConfig, stopper,
                 acceptPc, termPc, usr1Pc, readySentTo, opTerms, startupErr>>

\* one copy direction ends; the connection is closed once both have ended
CopyDone(c) ==
  /\ conn[c].stage \in {"relay2", "relay1"}
  /\ Running(conn[c].owner)
  /\ IF conn[c].stage = "relay2"
     THEN /\ conn' = [conn EXCEPT ![c].stage = "relay1"]
          /\ wg' = wg
     ELSE Finish(c)
  /\ UNCHANGED <<pc, gracefulChild, spawner, listener, tlsConfig, stopper,
                 acceptPc, termPc, usr1Pc, readySentTo, opTerms, startupErr>>

\* the general specification handles MaxSpawns reload signals
SpawnsLeft == Cardinality(Procs \ Unborn) <= MaxSpawns

MainStep(p) ==
  \/ InitLogger(p)
  \/ Bind(p)
  \/ Wrap(p)
  \/ WgInit(p)
  \/ GoAccept(p)
  \/ GoSigterm(p)
  \/ GoSigusr1(p)
  \/ NotifyParent(p)
  \/ Wait(p)

TaskStep(p) ==
  \/ TermNotify(p)
  \/ TermClose(p)
  \/ AcceptClosed(p)
  \/ AcceptFailedStop(p)

ConnStep(c) ==
  \/ Handshake(c)
  \/ Dial(c)
  \/ CopyDone(c)

Next ==
  \/ \E p \in Procs : MainStep(p)
  \/ \E p \in Procs : TaskStep(p)
  \/ \E p \in Procs : OperatorTerm(p)
  \/ \E p \in Procs : AcceptFails(p)
  \/ \E p \in Procs : SpawnsLeft /\ Reload(p)
  \/ \E p \in Procs, c \in Conns : AcceptConn(p, c)
  \/ \E c \in Conns : ConnStep(c)

Spec == Init /\ [][Next]_vars

\* The steps the runtime schedules: a runnable task is eventually run, a
\* blocked call returns once what it waits for has happened, and every
\* connection's peers eventually finish.  Signals, client arrivals and
\* accept failures come from outside and need not happen.
Progress ==
  \/ \E p \in Procs : MainStep(p)
  \/ \E p \in Procs : TaskStep(p)
  \/ \E c \in Conns : ConnStep(c)

LiveSpec == Init /\ [][Next]_vars /\ WF_vars(Progress)

\* The double-reload scenario: the first process receives every reload
\* signal (as many as there are processes to spawn), serves every client and
\* may meet an accept error; no operator sends SIGTERM.
ReloadTwiceNext ==
  \/ \E p \in Procs : MainStep(p)
  \/ \E p \in Procs : TaskStep(p)
  \/ Reload(1)
  \/ AcceptFails(1)
  \/ \E c \in Conns : AcceptConn(1, c)
  \/ \E c \in Conns : ConnStep(c)

ReloadTwiceSpec == Init /\ [][ReloadTwiceNext]_vars /\ WF_vars(Progress)

\* ------------------------------------------------------ lifecycle states
\* SIGTERMs delivered to p so far, from an operator or from a ready child
TermsSeen(p) ==
  opTerms[p] + Cardinality({q \in Procs : readySentTo[q] = p})
Children(p) == {q \in Procs : pc[q] # "unborn" /\ spawner[q] = p}
\* LISTENING or RELOADING: startup completed, the listener open
Listening(p) == pc[p] = "wait" /\ listener[p] = "open"
\* DRAINING: the SIGTERM handler has closed the listener
Draining(p) == Running(p) /\ termPc[p] = "done"
Terminated(p) == pc[p] = "terminated"
ActiveOf(p) == {c \in Conns : conn[c].owner = p /\ Active(c)}
NoOperatorTerm == \A p \in Procs : opTerms[p] = 0

\* ------------------------------------------------------------------ C1
\* C1: a process is TERMINATED (main returned from wg.Wait) only when
\* none of its connections is still active and its counter is zero,
\* whatever the order in which the connections and the accept loop ended.
DrainCorrectness ==
  \A p \in Procs : Terminated(p) => ActiveOf(p) = {} /\ wg[p] = 0

\* a drained process: SIGTERM seen, every connection that ever arrived was
\* its own and has ended, and it has exited
DrainCorrectnessWitness ==
  /\ Terminated(1)
  /\ pc[2] = "unborn"
  /\ TermsSeen(1) >= 1
  /\ \A c \in Conns : conn[c].stage \in {"closed", "rejected"}

\* ------------------------------------------------------------------ C2
\* C2: a graceful child has bound its listener and launched its accept
\* loop before it sends SIGTERM to its parent; so, as long as no operator
\* sends SIGTERM, once the first process serves some running process holds
\* an open listener.
NeverZeroListeners ==
  /\ \A q \in Procs :
       readySentTo[q] # NotSent =>
         listener[q] # "none" /\ acceptPc[q] # "none"
  /\ (NoOperatorTerm /\ acceptPc[1] # "none") =>
       \E p \in Procs : Running(p) /\ listener[p] = "open"

\* the parent has retired on its child's signal and the child serves
NeverZeroListenersWitness ==
  /\ NoOperatorTerm
  /\ Terminated(1)
  /\ readySentTo[2] = 1
  /\ Listening(2)

\* ------------------------------------------------------------------ C3
\* C3: a SIGTERM delivered to a process that has already received one
\* changes nothing in that process: main stays where it is, the listener,
\* the stopper channel, the counter and the handler are left alone; and the
\* handler's one send on the stopper channel never finds the buffer full.
HandlerNeverBlocks ==
  \A p \in Procs : termPc[p] = "notify" => stopper[p] < StopperCap
SecondTermUnchanged(p) ==
  /\ pc'[p] = pc[p]
  /\ listener'[p] = listener[p]
  /\ stopper'[p] = stopper[p]
  /\ wg'[p] = wg[p]
  /\ termPc'[p] = termPc[p]
  /\ acceptPc'[p] = acceptPc[p]
ExitBeforeBind ==
  \A p \in Procs :
    startupErr[p] = "KeyMaterialError" => listener[p] = "none"

\* ------------------------------------------------------------------ C5
\* C5: once a graceful child has completed startup, its parent eventually
\* exits with code 0; and a child that has announced readiness and has
\* received no SIGTERM itself stays LISTENING, its accept loop not shut down.
ParentRetires ==
  \A q \in Procs :
    (gracefulChild[q] /\ pc[q] = "wait")
      ~> (spawner[q] \in Procs /\ Terminated(spawner[q]))
ChildKeepsListening ==
  \A q \in Procs :
    (readySentTo[q] # NotSent /\ TermsSeen(q) = 0) =>
      /\ Running(q)
      /\ listener[q] = "open"
      /\ acceptPc[q] \in {"accepting", "failed"}
ReloadScenario == ParentRetires /\ []ChildKeepsListening

\* the parent has exited 0 after draining a connection of its own while the
\* child serves a connection
ReloadScenarioWitness ==
  /\ Terminated(1)
  /\ readySentTo[2] = 1
  /\ NoOperatorTerm
  /\ Listening(2)
  /\ acceptPc[2] = "accepting"
  /\ ActiveOf(2) # {}
  /\ \E c \in Conns : conn[c].stage = "closed"

\* ------------------------------------------------------------------ C6
\* C6: a connection is accepted only by a process whose listener is open
\* and whose handler has not closed it; the handler's steps leave every
\* connection alone; and no active connection belongs to a process that has
\* exited.
AcceptedWhileOpen ==
  \A c \in Conns :
    (conn[c].stage = "none" /\ conn'[c].stage # "none") =>
      /\ listener[conn'[c].owner] = "open"
      /\ termPc[conn'[c].owner] # "done"
ShutdownLeavesConns ==
  (termPc' # termPc \/ \E p \in Procs : listener[p] = "open" /\ listener'[p] = "closed")
    => conn' = conn
NoAcceptAfterClose ==
  /\ [](\A c \in Conns : Active(c) => Running(conn[c].owner))
  /\ [][AcceptedWhileOpen /\ ShutdownLeavesConns]_vars

\* a connection relaying in a process that is draining
NoAcceptAfterCloseWitness ==
  \E c \in Conns :
    /\ conn[c].stage = "relay1"
    /\ Draining(conn[c].owner)
    /\ acceptPc[conn[c].owner] = "exited"

\* ------------------------------------------------------------------ C7
\* C7: a DRAINING process eventually exits with code 0, given only that
\* its connections end.
DrainLiveness ==
  \A p \in Procs : Draining(p) ~> Terminated(p)

\* a process that drained two connections and exited
DrainLivenessWitness ==
  /\ Terminated(2)
  /\ termPc[2] = "done"
  /\ Running(1)
  /\ \A c \in Conns : conn[c].stage = "closed"

\* ------------------------------------------------------------------ C8
\* C8: a connection whose chain carries no accepted organizational unit
\* leaves the handshake only by being rejected: it never dials the backend
\* and never relays.
DisjointOUNeverRelays ==
  [][\A c \in Conns :
       (/\ conn[c].stage = "handshake"
        /\ ~ChainHasAcceptedOU(conn[c].chain, AcceptedOUs))
         => conn'[c].stage \in {"handshake", "rejected"}]_vars

\* a rejected connection beside one that reached the relay
DisjointOUNeverRelaysWitness ==
  \E c, d \in Conns :
    /\ conn[c].stage = "rejected"
    /\ conn[d].stage = "relay2"

\* ------------------------------------------------------------------ C9
\* C9: a process that met a startup error has exited with a non-zero code
\* and launched nothing: no accept loop, no signal handler, no readiness
\* signal, no connection.
StartupFailureNeverServes ==
  \A p \in Procs :
    startupErr[p] # "nil" =>
      /\ pc[p] = "fatal"
      /\ acceptPc[p] = "none"
      /\ termPc[p] = "none"
      /\ usr1Pc[p] = "none"
      /\ readySentTo[p] = NotSent
      /\ \A c \in Conns : conn[c].owner # p

\* a child that could not bind, its parent still serving
StartupFailureNeverServesWitness ==
  /\ startupErr[2] = "BindError"
  /\ pc[2] = "fatal"
  /\ Listening(1)

\* ----------------------------------------------------------------- C10
\* C10: the step that spawns a child of p leaves p's main, listener, accept
\* loop, counter and handlers as they were, the SIGUSR1 handler waiting for
\* the next signal; and p stops LISTENING only after a SIGTERM reached it.
SpawnFrame(p) ==
  /\ pc'[p] = pc[p]
  /\ listener'[p] = listener[p]
  /\ acceptPc'[p] = acceptPc[p]
  /\ wg'[p] = wg[p]
  /\ stopper'[p] = stopper[p]
  /\ termPc'[p] = termPc[p]
  /\ usr1Pc'[p] = "waiting"
  /\ conn' = conn
ReloadOnlySpawns ==
  [][\A p \in Procs :
       /\ Children(p)' # Children(p) => SpawnFrame(p)
       /\ (Listening(p) /\ ~Listening(p)') => TermsSeen(p) >= 1]_vars

\* RELOADING: the child is starting, the parent serves a connection
ReloadOnlySpawnsWitness ==
  /\ Listening(1)
  /\ acceptPc[1] = "accepting"
  /\ Running(2)
  /\ readySentTo[2] = NotSent
  /\ ActiveOf(1) # {}

\* ----------------------------------------------------------------- C11
\* C11: the counter of a process is never negative and always equals the
\* accept loop's slot (held from wg.Add(1) until the loop ends) plus the
\* number of its connections that are accepted and not yet closed, whatever
\* the outcome of each connection.
PastWgInit(p) ==
  pc[p] \in {"go_accept", "go_sigterm", "go_sigusr1", "notify", "wait",
             "terminated"}
LoopSlot(p) == IF PastWgInit(p) /\ acceptPc[p] # "exited" THEN 1 ELSE 0
CounterBalance ==
  \A p \in Procs :
    /\ wg[p] >= 0
    /\ wg[p] = LoopSlot(p) + Cardinality(ActiveOf(p))

\* one connection rejected and gone, another half-way through its relay
CounterBalanceWitness ==
  \E c, d \in Conns :
    /\ conn[c].stage = "rejected"
    /\ conn[d].stage = "relay1"
    /\ wg[conn[d].owner] = 2

\* ----------------------------------------------------------------- C12
\* C12: a process that has exited with code 0 had received a SIGTERM, its
\* handler had notified the accept loop and its counter was zero; and a
\* process whose accept loop stopped on an accept error stays alive, its
\* listener open, as long as no SIGTERM reaches it.
TerminatedOnlyAfterSignal ==
  \A p \in Procs :
    /\ Terminated(p) =>
         /\ TermsSeen(p) >= 1
         /\ termPc[p] \in {"close", "done"}
         /\ wg[p] = 0
    /\ (acceptPc[p] = "failed" /\ TermsSeen(p) = 0) =>
         Running(p) /\ listener[p] = "open"

\* a process that stopped serving on an accept error, idle and alive
TerminatedOnlyAfterSignalWitness ==
  \E p \in Procs :
    /\ acceptPc[p] = "failed"
    /\ pc[p] = "wait"
    /\ TermsSeen(p) = 0
    /\ ActiveOf(p) = {}
    /\ \E c \in Conns : conn[c].stage = "closed"

\* ----------------------------------------------------------------- C13
\* C13: a readiness SIGTERM has been sent by p only if p was started with
\* --graceful and had launched the accept loop and both signal handlers;
\* every --graceful process that completed startup has sent it; and it is
\* sent once, by the Kill statement of main.
ReadinessSentProperly ==
  \A p \in Procs :
    /\ readySentTo[p] # NotSent =>
         /\ gracefulChild[p]
         /\ acceptPc[p] # "none"
         /\ termPc[p] # "none"
         /\ usr1Pc[p] # "none"
    /\ (gracefulChild[p] /\ pc[p] \in {"wait", "terminated"}) =>
         readySentTo[p] # NotSent
ReadinessSentOnce ==
  \A p \in Procs :
    readySentTo'[p] # readySentTo[p] =>
      readySentTo[p] = NotSent /\ pc[p] = "notify"
ClosedOnce ==
  \A p \in Procs :
    termPc[p] = "done" =>
      termPc'[p] = "done" /\ listener'[p] = listener[p]
ReadyChildren(p) == {q \in Procs : readySentTo[q] = p}
TwiceSignalled ==
  \A p \in Procs :
    Cardinality(ReadyChildren(p)) >= 2 =>
      /\ pc[p] # "fatal"
      /\ termPc[p] \in {"notify", "close", "done"}
      /\ Terminated(p) => ActiveOf(p) = {} /\ wg[p] = 0
ConnEndFrame(c) ==
  /\ \A d \in Conns \ {c} : conn'[d] = conn[d]
  /\ wg' = [wg EXCEPT ![conn[c].owner] = @ - 1]
  /\ pc' = pc
  /\ listener' = listener
  /\ stopper' = stopper
  /\ acceptPc' = acceptPc
  /\ termPc' = termPc
  /\ usr1Pc' = usr1Pc
ConnFailureIsolated ==
  [][\A c \in Conns :
       (Active(c) /\ ~Active(c)') => ConnEndFrame(c)]_vars

\* one connection has ended, the other is being served by a process that
\* still listens
ConnFailureIsolatedWitness ==
  \E c, d \in Conns :
    /\ conn[c].stage = "closed"
    /\ conn[d].stage = "dial"
    /\ Listening(conn[d].owner)
    /\ acceptPc[conn[d].owner] = "accepting"
    /\ wg[conn[d].owner] = 2

\* ----------------------------------------------------------------- C16
\* C16: whenever the accept loop is still accepting on a listener the
\* handler has closed, the stopper notification is waiting for it; and the
\* loop leaves that state only by ending cleanly and giving its slot back.
StopperWaiting ==
  \A p \in Procs :
    (Running(p) /\ acceptPc[p] = "accepting" /\ listener[p] = "closed")
      => stopper[p] > 0
CleanExitOnClose ==
  \A p \in Procs :
    (/\ acceptPc[p] = "accepting"
     /\ listener[p] = "closed"
     /\ acceptPc'[p] # "accepting")
      => acceptPc'[p] = "exited" /\ wg'[p] = wg[p] - 1
ShutdownRecognised == []StopperWaiting /\ [][CleanExitOnClose]_vars

\* the loop has ended on the closed listener and consumed the notification
ShutdownRecognisedWitness ==
  \E p \in Procs :
    /\ pc[p] = "wait"
    /\ termPc[p] = "done"
    /\ acceptPc[p] = "exited"
    /\ stopper[p] = 0
    /\ Cardinality(ActiveOf(p)) = 2

\* ----------------------------------------------------------------- C17
\* C17: a process that failed during startup has sent no SIGTERM; and a
\* process that completed startup and has received no SIGTERM keeps its
\* listener open, its handler still waiting.
FailedReloadKeepsParent ==
  /\ \A q \in Procs : pc[q] = "fatal" => readySentTo[q] = NotSent
  /\ \A p \in Procs :
       (pc[p] = "wait" /\ TermsSeen(p) = 0) =>
         listener[p] = "open" /\ termPc[p] = "waiting"

\* the child died on its key material, the parent serves on
FailedReloadKeepsParentWitness ==
  /\ gracefulChild[2]
  /\ startupErr[2] = "KeyMaterialError"
  /\ pc[2] = "fatal"
  /\ NoOperatorTerm
  /\ Listening(1)
  /\ ActiveOf(1) # {}

\* ----------------------------------------------------------------- C18
\* C18: a readiness SIGTERM always goes to the process that spawned its
\* sender.
ReadyOnlyToSpawner ==
  \A q \in Procs :
    readySentTo[q] # NotSent => readySentTo[q] = spawner[q]

\* ----------------------------------------------------------------- C19
\* C19: while the accept loop of a process runs, its counter is at least
\* one; so a process that has exited with code 0 has an accept loop that
\* ended, and a process whose loop still runs never terminates, however few
\* connections it has.
SlotBeforeLaunch ==
  \A p \in Procs :
    /\ acceptPc[p] \in {"accepting", "failed"} => wg[p] >= 1
    /\ Terminated(p) => acceptPc[p] = "exited"

\* a process that served every connection and listens on with none active
SlotBeforeLaunchWitness ==
  /\ Listening(1)
  /\ acceptPc[1] = "accepting"
  /\ wg[1] = 1
  /\ pc[2] = "unborn"
  /\ \A c \in Conns : conn[c].stage = "closed"
====
